---- MODULE Spec2Model ----
(***************************************************************************)
(* Model of core/src/avm2/object/function_object.rs: the AVM2 Function     *)
(* Object (base script object state plus an optional Executable), its      *)
(* creation paths from_function / from_method, and its call / construct /  *)
(* derive protocol.                                                        *)
(*                                                                         *)
(* The heap is a sequence of GcCells; an object is its index in the heap,  *)
(* Option<Object>::None is 0.  Script code running inside exec.exec is the *)
(* environment: while an activation is on the stack it may perform any of  *)
(* the operations below (nested call / construct / derive / property       *)
(* write / function creation) and finally returns a value or an error.     *)
(* The closure scope of an Executable is threaded through and never read   *)
(* by this file, so it is left out of the model.                           *)
(***************************************************************************)
EXTENDS Integers, Sequences, FiniteSets, TLC

\* ---------------------------------------------------------------- bounds
MaxObjs == 5
MaxDepth == 1

\* ---------------------------------------------------------------- values
None == 0

Methods == {"m1"}
ArgLists == {<<"a">>}
Names == {"prototype"}

Undefined == [t |-> "undefined", o |-> None]
Number == [t |-> "number", o |-> None]
ObjV(o) == [t |-> "object", o |-> o]

NotCallable == "Not a callable function!"
CoercionError == "TypeError: not an Object"
ScriptError == "script error"

NoExec == [some |-> FALSE, method |-> "", receiver |-> None]
SomeExec(method, receiver) == [some |-> TRUE, method |-> method, receiver |-> receiver]

\* Well-known prototypes held by the Avm2 instance (activation.avm2().prototypes()).
object_proto == 1
function_proto == 2

Absent == [t |-> "absent", o |-> None]
NoSlots == [n \in Names |-> Absent]

VARIABLES heap, origin, stack, result, panicked

vars == <<heap, origin, stack, result, panicked>>

Objs(h) == 1 .. Len(h)

\* ---------------------------------------------------------------- heap cells
\* FunctionObjectData { base: ScriptObjectData::base_new(proto, None), exec }.
FunctionObjectData(proto, exec) ==
    [kind |-> "Function", proto |-> proto, exec |-> exec, slots |-> NoSlots]

\* The data of a plain ScriptObject: base state only, never an Executable.
ScriptObjectData(proto) ==
    [kind |-> "Script", proto |-> proto, exec |-> NoExec, slots |-> NoSlots]

\* GcCell::allocate: the new cell is appended; the new object is its index.
allocate(h, cell) == [heap |-> Append(h, cell), obj |-> Len(h) + 1]

\* ScriptObject::object(mc, proto): a fresh plain object with the given prototype.
ScriptObject_object(h, proto) == allocate(h, ScriptObjectData(proto))

\* install_slot(mc, name, id, value, is_const): an own property backed by a slot.
install_slot(h, this, name, value) ==
    [h EXCEPT ![this].slots[name] = value]

\* set_property on an object: the value is stored as an own property.
set_property(h, this, name, value) ==
    [h EXCEPT ![this].slots[name] = value]

has_own_property(h, o, name) == h[o].slots[name] # Absent

\* get_property with prototype-chain fallback: the receiver first, then its
\* prototype, ..., stopping at the first definer; undefined when none defines it.
RECURSIVE get_property(_, _, _)
get_property(h, o, name) ==
    IF o = None THEN Undefined
    ELSE IF has_own_property(h, o, name) THEN h[o].slots[name]
    ELSE get_property(h, h[o].proto, name)

\* Value::coerce_to_object: an object value is that object; a value that is no
\* object cannot be coerced.
coerce_to_object(v) ==
    IF v.t = "object" THEN [ok |-> TRUE, obj |-> v.o, err |-> ""]
    ELSE [ok |-> FALSE, obj |-> None, err |-> CoercionError]

\* ---------------------------------------------------------------- creation
\* Faulty variant of from_method: the receiver override is dropped.
from_method_unbound(h, method, receiver) ==
    allocate(h, FunctionObjectData(function_proto, SomeExec(method, None)))

\* FunctionObject::from_method: a callable whose prototype link is the global
\* function prototype and whose Executable carries `receiver` as forced receiver.
from_method(h, method, receiver) ==
    LET fn_proto == function_proto
        exec == SomeExec(method, receiver)
    IN  allocate(h, FunctionObjectData(fn_proto, exec))

\* Faulty variant of from_function: the prototype object is created but never
\* installed on the function.
from_function_bare(h, method) ==
    LET this == from_method(h, method, None)
        es3_proto == ScriptObject_object(this.heap, object_proto)
    IN  [heap |-> es3_proto.heap, obj |-> this.obj]

\* FunctionObject::from_function: from_method with no forced receiver, then a
\* fresh plain object installed as the own public property `prototype`.
from_function(h, method) ==
    LET this == from_method(h, method, None)
        es3_proto == ScriptObject_object(this.heap, object_proto)
    IN  [heap |-> install_slot(es3_proto.heap, this.obj, "prototype", ObjV(es3_proto.obj)),
         obj |-> this.obj]

\* FunctionObject::as_executable: a clone of the exec field.
as_executable(h, self) == h[self].exec

\* Faulty variant of derive: the new cell is a clone of self's data (exec
\* included) with the prototype link replaced.
derive_clone(h, self) == allocate(h, FunctionObjectData(self, h[self].exec))

\* Faulty variant of derive: the new cell shares self's prototype instead of
\* linking to self.
derive_sibling(h, self) == allocate(h, FunctionObjectData(h[self].proto, NoExec))

\* FunctionObject::derive: a new Function Object cell whose prototype link is
\* `self` and whose exec is None.
derive(h, self) ==
    LET this == self
        base == FunctionObjectData(this, NoExec)
    IN  allocate(h, base)

\* ScriptObject::derive: a new plain object whose prototype link is `self`.
ScriptObject_derive(h, self) == allocate(h, ScriptObjectData(self))

\* Object::derive dispatches on the variant of the object it is called on.
Object_derive(h, o) ==
    IF h[o].kind = "Function" THEN derive(h, o) ELSE ScriptObject_derive(h, o)

\* ---------------------------------------------------------------- call
\* Executable::exec(unbound_receiver, arguments, activation, subclass_object,
\* callee): the activation the code runs in.  The forced receiver wins.
Executable_exec(exec, unbound_receiver, arguments, subclass_object, callee) ==
    [callee |-> callee,
     method |-> exec.method,
     recv |-> unbound_receiver,
     this |-> IF exec.receiver # None THEN exec.receiver ELSE unbound_receiver,
     args |-> arguments,
     marker |-> subclass_object]

NoAct == [callee |-> None, method |-> "", recv |-> None, this |-> None,
          args |-> << >>, marker |-> None]

\* Faulty variant of call: an object without an Executable runs the one of
\* its prototype.
call_inherited(h, self, receiver, arguments, subclass_object) ==
    LET holder == IF h[self].exec.some \/ h[self].proto = None THEN self
                  ELSE h[self].proto
    IN  IF h[holder].exec.some
        THEN [started |-> TRUE,
              act |-> Executable_exec(h[holder].exec, receiver, arguments,
                                      subclass_object, self),
              guard |-> self,
              err |-> ""]
        ELSE [started |-> FALSE, act |-> NoAct, guard |-> None, err |-> NotCallable]

\* Faulty variant of call: the subclass object is not passed on.
call_no_subclass(h, self, receiver, arguments, subclass_object) ==
    IF h[self].exec.some
    THEN [started |-> TRUE,
          act |-> Executable_exec(h[self].exec, receiver, arguments, None, self),
          guard |-> self,
          err |-> ""]
    ELSE [started |-> FALSE, act |-> NoAct, guard |-> None, err |-> NotCallable]

\* FunctionObject::call up to the point where exec.exec has been entered.
\* `guard` is the cell on which the Ref returned by self.0.read() is alive:
\* the temporary of the `if let` scrutinee lives until the end of the
\* `if let` statement, i.e. for the whole of exec.exec.
call(h, self, receiver, arguments, subclass_object) ==
    IF h[self].exec.some
    THEN [started |-> TRUE,
          act |-> Executable_exec(h[self].exec, receiver, arguments,
                                  subclass_object, self),
          guard |-> self,
          err |-> ""]
    ELSE [started |-> FALSE, act |-> NoAct, guard |-> None, err |-> NotCallable]

\* Faulty variant of call_return: an error of the code is replaced by this
\* layer's own error.
call_return_wrapped(out) ==
    IF out.status = "err" THEN [out EXCEPT !.err = NotCallable] ELSE out

\* What FunctionObject::call returns once exec.exec has returned `out`.
call_return(out) == out

\* Faulty variant of construct: a `prototype` that is no object is replaced by
\* the global object prototype instead of being reported.
construct_fallback(h, self, arguments) ==
    LET looked == coerce_to_object(get_property(h, self, "prototype"))
        prototype == IF looked.ok THEN looked.obj ELSE object_proto
        derived == Object_derive(h, prototype)
        instance == derived.obj
        called == call(derived.heap, self, instance, arguments, None)
    IN  [started |-> called.started, heap |-> derived.heap,
         prototype |-> prototype, instance |-> instance,
         act |-> called.act, guard |-> called.guard, err |-> called.err]

\* FunctionObject::construct up to the point where the constructor body has
\* been entered: lookup of `prototype`, coercion, derive, then self.call with
\* the instance, the arguments and no subclass object.
construct(h, self, arguments) ==
    LET class == self
        looked == coerce_to_object(get_property(h, class, "prototype"))
    IN  IF ~looked.ok
        THEN [started |-> FALSE, heap |-> h, prototype |-> None, instance |-> None,
              act |-> NoAct, guard |-> None, err |-> looked.err]
        ELSE LET prototype == looked.obj
                 derived == Object_derive(h, prototype)
                 instance == derived.obj
                 called == call(derived.heap, self, instance, arguments, None)
             IN  [started |-> called.started, heap |-> derived.heap,
                  prototype |-> prototype, instance |-> instance,
                  act |-> called.act, guard |-> called.guard, err |-> called.err]

\* Faulty variant of construct_return: the value of the constructor body is
\* the result.
construct_return_body(instance, out) == out

\* What FunctionObject::construct returns once self.call has returned `out`:
\* the `?` passes an error on, otherwise the instance is the result.
construct_return(instance, out) ==
    IF out.status = "err" THEN out
    ELSE [status |-> "ok", val |-> ObjV(instance), err |-> ""]

\* FunctionObject::base_mut: self.0.write(mc) succeeds only while no Ref on
\* the cell is alive; otherwise the RefCell borrow panics.
ReadGuards(stk) == {stk[i].guard : i \in DOMAIN stk} \ {None}
base_mut(stk, self) == self \notin ReadGuards(stk)

\* ---------------------------------------------------------------- state
\* origin[o]: how object o came to be: the operation, the method and forced
\* receiver it was given, the object it was derived from (history; no
\* operation reads it).
Origin(via, method, receiver, from) ==
    [via |-> via, method |-> method, receiver |-> receiver, from |-> from]

Ok(v) == [status |-> "ok", val |-> v, err |-> ""]
Err(e) == [status |-> "err", val |-> Undefined, err |-> e]
NoOutcome == [status |-> "none", val |-> Undefined, err |-> ""]

Site(self, receiver, arguments, subclass_object) ==
    [self |-> self, recv |-> receiver, args |-> arguments, marker |-> subclass_object]

NoSite == Site(None, None, << >>, None)

\* A stack frame: the inputs of the call or construct that started the code
\* (site), the activation exec.exec runs (act), the read guard call holds
\* for it, and for a construct the prototype it looked up and the instance
\* it derived.
Frame(op, site, c, prototype, instance) ==
    [op |-> op, site |-> site, act |-> c.act, guard |-> c.guard,
     prototype |-> prototype, instance |-> instance]

\* What the call or construct that has just returned handed back to its
\* caller (ret), what the code it ran returned (body; none when no code ran)
\* and how many times it ran code.  op is "none" once anything else happened.
Result(op, ret, body, execs) == [op |-> op, ret |-> ret, body |-> body, execs |-> execs]

NoResult == Result("none", NoOutcome, NoOutcome, 0)

Init ==
    /\ heap = << ScriptObjectData(None), ScriptObjectData(object_proto) >>
    /\ origin = << Origin("global", "", None, None), Origin("global", "", None, None) >>
    /\ stack = << >>
    /\ result = NoResult
    /\ panicked = FALSE

Functions(h) == {o \in Objs(h) : h[o].kind = "Function"}

\* ---------------------------------------------------------------- actions
FromFunction(method) ==
    /\ ~panicked
    /\ Len(heap) + 2 <= MaxObjs
    /\ LET r == from_function(heap, method)
       IN  /\ heap' = r.heap
           /\ origin' = origin \o << Origin("from_function", method, None, None),
                                     Origin("es3_proto", "", None, None) >>
           /\ result' = NoResult
    /\ UNCHANGED <<stack, panicked>>

FromMethod(method, receiver) ==
    /\ ~panicked
    /\ Len(heap) + 1 <= MaxObjs
    /\ LET r == from_method(heap, method, receiver)
       IN  /\ heap' = r.heap
           /\ origin' = Append(origin, Origin("from_method", method, receiver, None))
           /\ result' = NoResult
    /\ UNCHANGED <<stack, panicked>>

Derive(o) ==
    /\ ~panicked
    /\ Len(heap) + 1 <= MaxObjs
    /\ LET r == derive(heap, o)
       IN  /\ heap' = r.heap
           /\ origin' = Append(origin, Origin("derive", "", None, o))
           /\ result' = NoResult
    /\ UNCHANGED <<stack, panicked>>

\* A property write by the interpreter or by running code.  The write goes
\* through base_mut; on a cell that call still holds a Ref on, the RefCell
\* borrow panics and the process is gone (its heap and stack with it).
SetProperty(o, name, value) ==
    /\ ~panicked
    /\ result' = NoResult
    /\ IF base_mut(stack, o)
       THEN /\ heap' = set_property(heap, o, name, value)
            /\ UNCHANGED <<origin, stack, panicked>>
       ELSE /\ panicked' = TRUE
            /\ heap' = << >>
            /\ origin' = << >>
            /\ stack' = << >>

Call(self, receiver, arguments, subclass_object) ==
    /\ ~panicked
    /\ LET c == call(heap, self, receiver, arguments, subclass_object)
           site == Site(self, receiver, arguments, subclass_object)
       IN  IF c.started
           THEN /\ Len(stack) < MaxDepth
                /\ stack' = Append(stack, Frame("call", site, c, None, None))
                /\ result' = NoResult
           ELSE /\ result' = Result("call", Err(c.err), NoOutcome, 0)
                /\ stack' = stack
    /\ UNCHANGED <<heap, origin, panicked>>

Construct(self, arguments) ==
    /\ ~panicked
    /\ LET c == construct(heap, self, arguments)
           site == Site(self, None, arguments, None)
           allocs == Len(c.heap) - Len(heap)
       IN  /\ Len(c.heap) <= MaxObjs
           /\ heap' = c.heap
           /\ origin' = origin \o [i \in 1 .. allocs |-> Origin("construct", "", None, c.prototype)]
           /\ IF c.started
              THEN /\ Len(stack) < MaxDepth
                   /\ stack' = Append(stack, Frame("construct", site, c, c.prototype,
                                                   c.instance))
                   /\ result' = NoResult
              ELSE /\ result' = Result("construct", Err(c.err), NoOutcome, 0)
                   /\ stack' = stack
    /\ UNCHANGED panicked

\* The running code returns `out`; the call (and the construct above it, if
\* any) that started it returns to its caller.
Return(out) ==
    /\ ~panicked
    /\ stack # << >>
    /\ LET top == stack[Len(stack)]
           called == call_return(out)
           ret == IF top.op = "construct"
                  THEN construct_return(top.instance, called)
                  ELSE called
       IN  result' = Result(top.op, ret, out, 1)
    /\ stack' = SubSeq(stack, 1, Len(stack) - 1)
    /\ UNCHANGED <<heap, origin, panicked>>

\* Inputs: receivers, written values and body outcomes are drawn from small sets.
ForcedReceivers == {None, function_proto}
CallSites ==
    {Site(None, None, << >>, None),
     Site(None, object_proto, <<"a">>, 1)}
Callables(h) == {o \in Functions(h) : h[o].exec.some}
Inert(h) == {o \in Functions(h) : ~h[o].exec.some}
Written(h) == {Number} \cup {ObjV(o) : o \in Inert(h)}
Outcomes == {Ok(Undefined), Ok(Number), Ok(ObjV(object_proto)), Err(ScriptError)}

Next ==
    \/ \E m \in Methods : FromFunction(m)
    \/ \E m \in Methods, r \in ForcedReceivers : FromMethod(m, r)
    \/ \E o \in Functions(heap) : Derive(o)
    \/ \E o \in Callables(heap), n \in Names, v \in Written(heap) : SetProperty(o, n, v)
    \/ \E f \in Functions(heap), s \in CallSites : Call(f, s.recv, s.args, s.marker)
    \/ \E f \in Functions(heap), a \in ArgLists : Construct(f, a)
    \/ \E out \in Outcomes : Return(out)

Spec == Init /\ [][Next]_vars

\* ---------------------------------------------------------------- properties
Top(stk) == stk[Len(stk)]

\* The receiver the call site of a frame supplied: for a construct, the
\* instance it derived.
SuppliedReceiver(fr) == IF fr.op = "construct" THEN fr.instance ELSE fr.site.recv

\* Kinds of step, told by what they leave behind.
Started(op) == Len(stack') = Len(stack) + 1 /\ Top(stack').op = op
Returned(op) == ~panicked' /\ Len(stack') = Len(stack) - 1 /\ Top(stack).op = op
Refused(op) == result'.op = op /\ result'.execs = 0

\* C1: a construct that succeeds returns the instance it derived from the
\* coerced `prototype` of the callable: a cell that did not exist before
\* the construct and whose prototype link is that object; never the value the
\* constructor body returned.
C1_ConstructStarts ==
    Started("construct") =>
        LET fr == Top(stack')
            p == coerce_to_object(get_property(heap, fr.site.self, "prototype"))
        IN  /\ p.ok
            /\ fr.prototype = p.obj
            /\ fr.instance \notin Objs(heap)
            /\ fr.instance \in Objs(heap')
            /\ heap'[fr.instance].proto = p.obj
            /\ origin'[fr.instance].via = "construct"
C1_ConstructReturns ==
    (Returned("construct") /\ result'.ret.status = "ok") =>
        /\ result'.ret.val = ObjV(Top(stack).instance)
        /\ heap'[Top(stack).instance].proto = Top(stack).prototype
C1_ConstructReturnsDerivedInstance ==
    [][C1_ConstructStarts /\ C1_ConstructReturns]_vars

C1_Witness ==
    /\ result.op = "construct"
    /\ result.ret.status = "ok"
    /\ result.body = Ok(Number)

\* C2: derive on any Function Object, callable or inert, allocates one new
\* cell, distinct from the object, whose prototype link is the object and
\* which has no Executable, so that call on it fails as not callable; every
\* cell that existed before is left as it was.
C2_Derived ==
    \A d \in Objs(heap) :
        origin[d].via = "derive" =>
            /\ d # origin[d].from
            /\ heap[d].kind = "Function"
            /\ heap[d].proto = origin[d].from
            /\ ~as_executable(heap, d).some
            /\ \A s \in CallSites :
                   LET c == call(heap, d, s.recv, s.args, s.marker)
                   IN  ~c.started /\ c.err = NotCallable
C2_DeriveStep ==
    (Len(heap') > Len(heap) /\ origin'[Len(heap')].via = "derive") =>
        /\ Len(heap') = Len(heap) + 1
        /\ SubSeq(heap', 1, Len(heap)) = heap
C2_DeriveLinksToSelfAndIsInert == []C2_Derived /\ [][C2_DeriveStep]_vars

C2_Witness ==
    /\ \E d \in Objs(heap) : origin[d].via = "derive" /\ origin[d].from \in Inert(heap)
    /\ \E d \in Objs(heap) : origin[d].via = "derive" /\ origin[d].from \in Callables(heap)

\* C3: call on a Function Object without an Executable returns the
\* not-callable error, runs no code and changes nothing in the heap or on the
\* stack, whatever the receiver, arguments and subclass object.
C3_InertNotCallable ==
    \A f \in Inert(heap), s \in CallSites :
        LET c == call(heap, f, s.recv, s.args, s.marker)
        IN  ~c.started /\ c.err = NotCallable /\ c.act = NoAct
C3_RefusedStep ==
    Refused("call") =>
        /\ result'.ret = Err(NotCallable)
        /\ result'.body = NoOutcome
        /\ heap' = heap
        /\ origin' = origin
        /\ stack' = stack
C3_CallOnInertFailsWithoutEffect == []C3_InertNotCallable /\ [][C3_RefusedStep]_vars

C3_Witness ==
    /\ result.op = "call"
    /\ result.ret = Err(NotCallable)
    /\ result.execs = 0

\* C4: right after from_function the new object has an own property
\* `prototype` holding a freshly allocated plain object whose prototype link
\* is the global object prototype; the function is callable and its
\* prototype link is the global function prototype.  So construct on such a
\* function, `prototype` not overwritten, passes the lookup and the coercion.
C4_FromFunctionStep ==
    (Len(heap') > Len(heap) /\ origin'[Len(heap) + 1].via = "from_function") =>
        LET f == Len(heap) + 1
            p == heap'[f].slots["prototype"]
        IN  /\ has_own_property(heap', f, "prototype")
            /\ p.t = "object"
            /\ p.o \notin Objs(heap)
            /\ p.o \in Objs(heap')
            /\ p.o # f
            /\ heap'[p.o].kind = "Script"
            /\ heap'[p.o].proto = object_proto
            /\ heap'[p.o].slots = NoSlots
            /\ as_executable(heap', f).some
            /\ heap'[f].proto = function_proto
            /\ SubSeq(heap', 1, Len(heap)) = heap
C4_ConstructPassesLookup ==
    \A f \in Objs(heap), a \in ArgLists :
        (origin[f].via = "from_function" /\ heap[f].slots["prototype"] = ObjV(f + 1)) =>
            LET c == construct(heap, f, a)
            IN  c.started /\ c.prototype = f + 1 /\ c.err # CoercionError
C4_FromFunctionInstallsPrototype ==
    []C4_ConstructPassesLookup /\ [][C4_FromFunctionStep]_vars

C4_Witness ==
    \E i \in DOMAIN stack :
        /\ stack[i].op = "construct"
        /\ origin[stack[i].site.self].via = "from_function"
        /\ heap[stack[i].instance].proto = stack[i].site.self + 1

\* C5: code started on a Function Object created with a forced receiver runs
\* with that receiver whatever the call site supplies; code started on one
\* created without runs with exactly the receiver the call site supplies.
C5_ForcedReceiverWins ==
    \A i \in DOMAIN stack :
        LET fr == stack[i]
            made == origin[fr.site.self]
        IN  /\ made.via \in {"from_function", "from_method"}
            /\ made.receiver # None => fr.act.this = made.receiver
            /\ made.receiver = None => fr.act.this = SuppliedReceiver(fr)

C5_Witness ==
    \E i \in DOMAIN stack :
        /\ origin[stack[i].site.self].receiver # None
        /\ stack[i].site.recv # None
        /\ stack[i].site.recv # origin[stack[i].site.self].receiver
        /\ stack[i].act.this = origin[stack[i].site.self].receiver

\* C6: every Function Object is in the state it was created in: one made by
\* from_function or from_method has the Executable it was made with, one made
\* by derive has none, and a Function Object without one was made by derive.
C6_ExecutableFixedAtCreation ==
    \A o \in Objs(heap) :
        LET made == origin[o]
        IN  /\ made.via \in {"from_function", "from_method"} =>
                /\ heap[o].kind = "Function"
                /\ as_executable(heap, o) = SomeExec(made.method, made.receiver)
            /\ made.via \in {"derive", "construct"} => ~as_executable(heap, o).some
            /\ (heap[o].kind = "Function" /\ ~as_executable(heap, o).some) =>
                made.via \in {"derive", "construct"}

C6_Witness ==
    /\ \E f \in Callables(heap) :
           /\ heap[f].slots["prototype"] = Number
           /\ origin[f].receiver # None
    /\ \E d \in Inert(heap) : origin[d].via = "derive"
    /\ result.op = "call"
    /\ result.execs = 1

\* C7: call fails on its own only with the not-callable error and only on an
\* object without an Executable; otherwise what call returns is what the code
\* returned, value or error; an error of the constructor body is what
\* construct returns.
C7_ErrorsPassUnchanged ==
    /\ \A f \in Functions(heap), s \in CallSites :
           LET c == call(heap, f, s.recv, s.args, s.marker)
           IN  /\ c.started = as_executable(heap, f).some
               /\ ~c.started => c.err = NotCallable
    /\ (result.op = "call" /\ result.execs = 0) => result.ret = Err(NotCallable)
    /\ (result.op = "call" /\ result.execs = 1) => result.ret = result.body
    /\ (result.op = "construct" /\ result.body.status = "err") =>
           result.ret = result.body

C7_Witness ==
    /\ result.op = "call"
    /\ result.body = Err(ScriptError)
    /\ result.ret = Err(ScriptError)

\* C8: construct looks up and coerces `prototype` first, derives second and
\* runs the body last.  When the value is no object it returns that error,
\* allocates nothing and runs nothing; a body that has started has as its
\* receiver the instance already derived from the looked-up prototype.
C8_NoObjectNoInstance ==
    \A f \in Functions(heap), a \in ArgLists :
        LET looked == coerce_to_object(get_property(heap, f, "prototype"))
            c == construct(heap, f, a)
        IN  ~looked.ok => (~c.started /\ c.heap = heap /\ c.err = looked.err)
C8_RefusedStep ==
    (Refused("construct") /\ result'.ret.err = CoercionError) =>
        /\ heap' = heap
        /\ origin' = origin
        /\ stack' = stack
C8_BodyStep ==
    Started("construct") =>
        LET fr == Top(stack')
            looked == coerce_to_object(get_property(heap, fr.site.self, "prototype"))
        IN  /\ looked.ok
            /\ fr.act.recv = Len(heap) + 1
            /\ fr.act.recv \in Objs(heap')
            /\ heap'[fr.act.recv].proto = looked.obj
C8_LookupThenDeriveThenBody ==
    []C8_NoObjectNoInstance /\ [][C8_RefusedStep /\ C8_BodyStep]_vars

C8_Witness ==
    /\ result.op = "construct"
    /\ result.ret = Err(CoercionError)
    /\ \E f \in Callables(heap) : heap[f].slots["prototype"] = Number

\* C9: while code started by call on f runs, a property write to f (or to any
\* other function whose call is in progress) is carried out like any other
\* write: no write aborts.
C9_WriteToRunningFunctionAccepted == ~panicked

\* C10: the code started by construct receives the derived instance as
\* supplied receiver, the arguments unchanged, no subclass object and the
\* callable itself as callee; the code started by call receives the receiver,
\* arguments and subclass object of the call site and the called object as
\* callee.  Either runs the code once, and construct returns that instance.
C10_Frames ==
    \A i \in DOMAIN stack :
        LET fr == stack[i]
        IN  /\ fr.act.callee = fr.site.self
            /\ fr.act.args = fr.site.args
            /\ fr.act.marker = fr.site.marker
            /\ fr.act.recv = SuppliedReceiver(fr)
            /\ fr.op = "construct" => fr.act.marker = None /\ fr.instance # None
C10_ReturnStep ==
    \A op \in {"call", "construct"} :
        Returned(op) =>
            /\ result'.op = op
            /\ result'.execs = 1
            /\ (op = "construct" /\ result'.ret.status = "ok") =>
                   result'.ret.val = ObjV(Top(stack).act.recv)
C10_CodeReceivesCallSiteInputs == []C10_Frames /\ [][C10_ReturnStep]_vars

C10_Witness ==
    \E i \in DOMAIN stack :
        /\ stack[i].op = "call"
        /\ stack[i].act.marker # None
        /\ stack[i].act.args # << >>
        /\ stack[i].act.recv # None

====
